---- MODULE Spec2Model ----
(***************************************************************************)
(* Model of cloud/dimensiondata/dimensiondata_backup_client.py: the        *)
(* per-target reconciliation loop of handle_backup_client and the helpers  *)
(* it calls, run against a model of the backup provider (the libcloud      *)
(* DimensionDataBackupDriver the module is handed).                        *)
(*                                                                         *)
(* Strings that the code formats ("... %s" % x) are sequences of word      *)
(* groups, so that "the message carries e.msg" and "the message names the  *)
(* server" are things a formula can test.  Python's None is the string     *)
(* "None" for a parameter and the empty sequence for an optional object.   *)
(***************************************************************************)
EXTENDS Integers, Sequences, FiniteSets, TLC

\* ------------------------------------------------------------------ bounds
MaxNodes == 2        \* longest node_ids list
MaxRuns == 2         \* how many times in a row the module is invoked

\* ------------------------------------------------------- the input domains
ServerSeq == <<"A", "B">>
Servers == {ServerSeq[i] : i \in 1..Len(ServerSeq)}
ClientTypeSeq == <<"FA.Linux", "MySQL">>
ClientTypes == {ClientTypeSeq[i] : i \in 1..Len(ClientTypeSeq)}
States == {"present", "absent"}
StoragePolicies == {"None", "30 Day Storage Policy"}
SchedulePolicies == {"None", "12AM - 6AM"}
DefaultNotifyEmail == "nobody@example.com"
DefaultNotifyTrigger == "ON_FAILURE"

\* What the provider holds before the module ever ran.
ExistingStoragePolicy == "14 Day Storage Policy"
ExistingSchedulePolicy == "6AM - 12PM"
ExistingServicePlan == "Advanced"
NotProvisionedSuffix == "has not been provisioned for backup"
ApiErrorMsg == <<"RESOURCE_BUSY", "try again later">>

\* Every provider call either works or raises DimensionDataAPIException.
Faults == {"none", "api_error"}

NodeLists == UNION {[1..n -> Servers] : n \in 0..MaxNodes}

VARIABLES
    params,             \* module.params
    details_attrs,      \* attribute names the provider's details object resolves
    provider,           \* server id -> [provisioned, service_plan, clients]
    next_id,            \* the id the provider gives the next client it creates
    provider_at_start,  \* the provider when the current run began
    calls,              \* the provider calls of the current run, in order
    run,                \* 1 for the first invocation, 2 for the second, ...
    pc,                 \* "running", "exited", "failed", "crashed"
    pos,                \* index into node_ids of the target the loop is at
    changed,            \* handle_backup_client's local
    server_clients_return,  \* handle_backup_client's local
    report              \* what exit_json / fail_json / the traceback carried

vars == <<params, details_attrs, provider, next_id, provider_at_start, calls,
          run, pc, pos, changed, server_clients_return, report>>

\* ------------------------------------------------------------------ helpers
EndsWith(msg, suffix) == Len(msg) > 0 /\ msg[Len(msg)] = suffix

Put(f, k, v) == [x \in (DOMAIN f) \cup {k} |-> IF x = k THEN v ELSE f[x]]

World == [provider |-> provider, next_id |-> next_id, calls |-> calls]

Call(op, p, server_id, args, ok, ret) ==
    [op |-> op, pos |-> p, server |-> server_id, args |-> args, ok |-> ok,
     ret |-> ret]

\* ------------------------------------------------------------ the provider
BackupDetails(target) ==
    [service_plan |-> target.service_plan, clients |-> target.clients]

ex_get_backup_details_for_target(w, server_id, p, fault) ==
    LET target == w.provider[server_id]
        raised == fault = "api_error" \/ ~target.provisioned
        msg == IF fault = "api_error" THEN ApiErrorMsg
               ELSE <<"Server", server_id, NotProvisionedSuffix>>
        ret == IF raised THEN <<>> ELSE <<BackupDetails(target)>>
    IN  [w |-> [w EXCEPT !.calls =
                    Append(@, Call("get", p, server_id, <<>>, ~raised, ret))],
         raised |-> raised,
         msg |-> IF raised THEN msg ELSE <<>>,
         ret |-> BackupDetails(target)]

NewClient(id, client_type, storage_policy, schedule_policy) ==
    [id |-> id, type |-> client_type, storage_policy |-> storage_policy,
     schedule_policy |-> schedule_policy, download_url |-> <<"download", id>>]

ex_add_client_to_target(w, server_id, p, client_type, storage_policy, schedule_policy, trigger, email, fault) ==
    LET raised == fault = "api_error"
        new == NewClient(w.next_id, client_type, storage_policy,
                         schedule_policy)
        args == <<client_type, storage_policy, schedule_policy, trigger,
                  email>>
        c == Call("add", p, server_id, args, ~raised,
                  IF raised THEN <<>> ELSE <<new>>)
    IN  [w |-> IF raised THEN [w EXCEPT !.calls = Append(@, c)]
               ELSE [provider |-> [w.provider EXCEPT ![server_id].clients =
                                       Append(@, new)],
                     next_id |-> w.next_id + 1,
                     calls |-> Append(w.calls, c)],
         raised |-> raised,
         msg |-> IF raised THEN ApiErrorMsg ELSE <<>>]

ex_remove_client_from_target(w, server_id, p, backup_client, fault) ==
    LET raised == fault = "api_error"
        c == Call("remove", p, server_id, <<backup_client.id>>, ~raised, <<>>)
        old == w.provider[server_id].clients
        keep == SelectSeq(old, LAMBDA x : x.id # backup_client.id)
    IN  [w |-> IF raised THEN [w EXCEPT !.calls = Append(@, c)]
               ELSE [w EXCEPT !.calls = Append(@, c),
                              !.provider[server_id].clients = keep],
         raised |-> raised,
         msg |-> IF raised THEN ApiErrorMsg ELSE <<>>]

update_target(w, server_id, p, extra, fault) ==
    LET raised == fault = "api_error"
        c == Call("update", p, server_id, <<extra.servicePlan>>, ~raised, <<>>)
    IN  [w |-> IF raised THEN [w EXCEPT !.calls = Append(@, c)]
               ELSE [w EXCEPT !.calls = Append(@, c),
                              !.provider[server_id].service_plan =
                                  extra.servicePlan],
         raised |-> raised,
         msg |-> IF raised THEN ApiErrorMsg ELSE <<>>]

\* --------------------------------------------------------------- the module
get_backup_client(details, client_type) ==
    LET hits == SelectSeq(details.clients, LAMBDA c : c.type = client_type)
    IN  IF Len(hits) > 0 THEN <<hits[1]>> ELSE <<>>

backup_client_obj_to_dict(backup_client) ==
    [id |-> backup_client.id,
     client_type |-> backup_client.type,
     storage_policy |-> backup_client.storage_policy,
     schedule_policy |-> backup_client.schedule_policy,
     download_url |-> backup_client.download_url]

get_backup_details_for_host(w, server_id, p, fault) ==
    LET r == ex_get_backup_details_for_target(w, server_id, p, fault)
    IN  [w |-> r.w,
         failed |-> r.raised,
         msg |-> IF ~r.raised THEN <<>>
                 ELSE IF EndsWith(r.msg, NotProvisionedSuffix)
                 THEN <<"Server", server_id, "does not have backup enabled">>
                 ELSE <<"Problem finding backup info for host:">> \o r.msg,
         backup_details |-> r.ret]

remove_client_from_server(w, server_id, p, backup_client, fault) ==
    LET r == ex_remove_client_from_target(w, server_id, p, backup_client,
                                          fault)
    IN  [w |-> r.w,
         failed |-> r.raised,
         msg |-> IF r.raised
                 THEN <<"Failed removing client from host:">> \o r.msg
                 ELSE <<>>]

\* Mutant: the storage and the schedule policy change places in the add call.
add_client_to_server_swapped(w, server_id, p, fault) ==
    IF params.storage_policy = "None"
    THEN [w |-> w, failed |-> TRUE,
          msg |-> <<"Need key", "storage_policy", "for adding a client">>]
    ELSE IF params.schedule_policy = "None"
    THEN [w |-> w, failed |-> TRUE,
          msg |-> <<"Need key", "schedule_policy", "for adding a client">>]
    ELSE LET r == ex_add_client_to_target(
                      w, server_id, p, params.client_type,
                      params.schedule_policy, params.storage_policy,
                      params.notify_trigger, params.notify_email, fault)
         IN  [w |-> r.w,
              failed |-> r.raised,
              msg |-> IF r.raised
                      THEN <<"Failed adding client to host:">> \o r.msg
                      ELSE <<>>]

NeedKey(k) == <<"Need key", k, "for adding a client">>

add_client_to_server(w, server_id, p, fault) ==
    IF params.storage_policy = "None"
    THEN [w |-> w, failed |-> TRUE, msg |-> NeedKey("storage_policy")]
    ELSE IF params.schedule_policy = "None"
    THEN [w |-> w, failed |-> TRUE, msg |-> NeedKey("schedule_policy")]
    ELSE LET r == ex_add_client_to_target(
                      w, server_id, p, params.client_type,
                      params.storage_policy, params.schedule_policy,
                      params.notify_trigger, params.notify_email, fault)
         IN  [w |-> r.w,
              failed |-> r.raised,
              msg |-> IF r.raised
                      THEN <<"Failed adding client to host:">> \o r.msg
                      ELSE <<>>]

\* Mutant: the modify branch edits the client it found to the policies asked
\* for.
modify_backup_for_server_edits(w, server_id, p, service_plan, fault) ==
    LET r == update_target(w, server_id, p, [servicePlan |-> service_plan],
                           fault)
        old == r.w.provider[server_id].clients
        new == [i \in 1..Len(old) |->
                   IF old[i].type = params.client_type
                   THEN [old[i] EXCEPT
                            !.storage_policy = params.storage_policy,
                            !.schedule_policy = params.schedule_policy]
                   ELSE old[i]]
    IN  [w |-> [r.w EXCEPT !.provider[server_id].clients = new],
         raised |-> r.raised,
         msg |-> r.msg]

\* modify_backup_for_server has no try/except: what update_target raises
\* leaves the module as an exception, not through fail_json.
modify_backup_for_server(w, server_id, p, service_plan, fault) ==
    LET extra == [servicePlan |-> service_plan]
    IN  update_target(w, server_id, p, extra, fault)

\* Line 194 reads backup_details.sevice_plan.  Whether that name resolves is
\* decided by the object the provider returned: AttributeError where it
\* does not, the target's plan where it does.
sevice_plan(backup_details) ==
    [raised |-> "sevice_plan" \notin details_attrs,
     value |-> backup_details.service_plan]

\* Mutant: state=absent never removes.
Branch_absent_skips(state, backup_client) ==
    IF state = "absent" THEN "continue"
    ELSE IF backup_client = <<>> THEN "add"
    ELSE "modify"

\* Mutant: state=present adds without looking at what was found.
Branch_present_always_adds(state, backup_client) ==
    IF state = "absent" /\ backup_client = <<>> THEN "continue"
    ELSE IF state = "absent" THEN "remove"
    ELSE "add"

\* The if/elif chain of the loop body.
Branch(state, backup_client) ==
    IF state = "absent" /\ backup_client = <<>> THEN "continue"
    ELSE IF state = "absent" /\ backup_client # <<>> THEN "remove"
    ELSE IF state = "present" /\ backup_client = <<>> THEN "add"
    ELSE IF state = "present" /\ backup_client # <<>> THEN "modify"
    ELSE "unhandled"

fail_json(msg) == [pc |-> "failed", report |-> [failed |-> TRUE, msg |-> msg]]

uncaught(exception, msg) ==
    [pc |-> "crashed", report |-> [exception |-> exception, msg |-> msg]]

exit_json(c, msg, backups) ==
    [pc |-> "exited",
     report |-> [changed |-> c, msg |-> msg, backups |-> backups]]

\* -------------------------------------------------------------------- Init
InitialId(si, ti) == (si - 1) * Len(ClientTypeSeq) + ti

InitialClients(si, present) ==
    LET all == [ti \in 1..Len(ClientTypeSeq) |->
                   NewClient(InitialId(si, ti), ClientTypeSeq[ti],
                             ExistingStoragePolicy, ExistingSchedulePolicy)]
    IN  SelectSeq(all, LAMBDA c : c.type \in present)

InitialTargets(si) ==
    {[provisioned |-> FALSE, service_plan |-> ExistingServicePlan,
      clients |-> <<>>]}
    \cup {[provisioned |-> TRUE, service_plan |-> ExistingServicePlan,
           clients |-> InitialClients(si, present)] :
             present \in SUBSET ClientTypes}

InitialProviders ==
    {[s \in Servers |-> ts[CHOOSE i \in 1..Len(ServerSeq) : ServerSeq[i] = s]] :
        ts \in {t \in [1..Len(ServerSeq) ->
                          UNION {InitialTargets(i) : i \in 1..Len(ServerSeq)}] :
                    \A i \in 1..Len(ServerSeq) : t[i] \in InitialTargets(i)}}

Init ==
    /\ params \in [state : States,
                   client_type : ClientTypes,
                   storage_policy : StoragePolicies,
                   schedule_policy : SchedulePolicies,
                   notify_trigger : {DefaultNotifyTrigger},
                   notify_email : {DefaultNotifyEmail},
                   node_ids : NodeLists]
    /\ details_attrs \in {{"service_plan", "clients"},
                          {"service_plan", "clients", "sevice_plan"}}
    /\ provider \in InitialProviders
    /\ next_id = Len(ServerSeq) * Len(ClientTypeSeq) + 1
    /\ provider_at_start = provider
    /\ calls = <<>>
    /\ run = 1
    /\ pc = "running"
    /\ pos = 1
    /\ changed = FALSE
    /\ server_clients_return = <<>>
    /\ report = <<>>

\* ----------------------------------------------------------------- actions
InLoop == pc = "running" /\ pos <= Len(params.node_ids)

SetWorld(w) ==
    /\ provider' = w.provider
    /\ next_id' = w.next_id
    /\ calls' = w.calls

End(e) == pc' = e.pc /\ report' = e.report

Continue == pos' = pos + 1 /\ UNCHANGED <<pc, report>>

Frame == UNCHANGED <<params, details_attrs, provider_at_start, run>>

\* Mutant: a target whose read fails is skipped and the loop goes on.
LoopReadFails_skips ==
    /\ pc = "running" /\ pos <= Len(params.node_ids)
    /\ \E f \in {"none", "api_error"} :
          LET server_id == params.node_ids[pos]
              r == get_backup_details_for_host(
                       [provider |-> provider, next_id |-> next_id,
                        calls |-> calls], server_id, pos, f)
          IN  /\ r.failed
              /\ provider' = r.w.provider
              /\ next_id' = r.w.next_id
              /\ calls' = r.w.calls
    /\ pos' = pos + 1
    /\ UNCHANGED <<pc, report, changed, server_clients_return, params,
                   details_attrs, provider_at_start, run>>

\* line 179 fails: get_backup_details_for_host calls fail_json
LoopReadFails ==
    /\ InLoop
    /\ \E f \in Faults :
          LET server_id == params.node_ids[pos]
              r == get_backup_details_for_host(World, server_id, pos, f)
          IN  /\ r.failed
              /\ SetWorld(r.w)
              /\ End(fail_json(r.msg))
    /\ UNCHANGED <<pos, changed, server_clients_return>>
    /\ Frame

\* lines 181-182
LoopAbsentContinue ==
    /\ InLoop
    /\ LET server_id == params.node_ids[pos]
           r == get_backup_details_for_host(World, server_id, pos, "none")
           backup_client == get_backup_client(r.backup_details,
                                              params.client_type)
       IN  /\ ~r.failed
           /\ Branch(params.state, backup_client) = "continue"
           /\ SetWorld(r.w)
           /\ Continue
    /\ UNCHANGED <<changed, server_clients_return>>
    /\ Frame

\* lines 183-185
LoopAbsentRemove ==
    /\ InLoop
    /\ \E f \in Faults :
          LET server_id == params.node_ids[pos]
              r == get_backup_details_for_host(World, server_id, pos, "none")
              backup_client == get_backup_client(r.backup_details,
                                                 params.client_type)
              d == remove_client_from_server(r.w, server_id, pos,
                                             backup_client[1], f)
          IN  /\ ~r.failed
              /\ Branch(params.state, backup_client) = "remove"
              /\ changed' = TRUE
              /\ SetWorld(d.w)
              /\ IF d.failed THEN End(fail_json(d.msg)) /\ pos' = pos
                 ELSE Continue
    /\ UNCHANGED server_clients_return
    /\ Frame

\* lines 186-192
LoopPresentAdd ==
    /\ InLoop
    /\ \E f \in Faults, f2 \in Faults :
          LET server_id == params.node_ids[pos]
              r == get_backup_details_for_host(World, server_id, pos, "none")
              backup_client == get_backup_client(r.backup_details,
                                                 params.client_type)
              a == add_client_to_server(r.w, server_id, pos, f)
              r2 == get_backup_details_for_host(a.w, server_id, pos, f2)
              backup_client2 == get_backup_client(r2.backup_details,
                                                  params.client_type)
          IN  /\ ~r.failed
              /\ Branch(params.state, backup_client) = "add"
              /\ changed' = TRUE
              /\ IF a.failed
                 THEN /\ SetWorld(a.w)
                      /\ End(fail_json(a.msg))
                      /\ UNCHANGED <<pos, server_clients_return>>
                 ELSE IF r2.failed
                 THEN /\ SetWorld(r2.w)
                      /\ End(fail_json(r2.msg))
                      /\ UNCHANGED <<pos, server_clients_return>>
                 ELSE /\ SetWorld(r2.w)
                      /\ server_clients_return' =
                            Put(server_clients_return, server_id,
                                backup_client_obj_to_dict(backup_client2[1]))
                      /\ Continue
    /\ Frame

\* lines 193-199
LoopPresentModify ==
    /\ InLoop
    /\ \E f \in Faults :
          LET server_id == params.node_ids[pos]
              r == get_backup_details_for_host(World, server_id, pos, "none")
              backup_client == get_backup_client(r.backup_details,
                                                 params.client_type)
              existing_service_plan == sevice_plan(r.backup_details)
              m == modify_backup_for_server(r.w, server_id, pos,
                                            existing_service_plan.value, f)
          IN  /\ ~r.failed
              /\ Branch(params.state, backup_client) = "modify"
              /\ IF existing_service_plan.raised
                 THEN /\ SetWorld(r.w)
                      /\ End(uncaught("AttributeError", <<"sevice_plan">>))
                      /\ UNCHANGED <<pos, server_clients_return>>
                 ELSE IF m.raised
                 THEN /\ SetWorld(m.w)
                      /\ End(uncaught("DimensionDataAPIException", m.msg))
                      /\ UNCHANGED <<pos, server_clients_return>>
                 ELSE /\ SetWorld(m.w)
                      /\ server_clients_return' =
                            Put(server_clients_return, server_id,
                                backup_client_obj_to_dict(backup_client[1]))
                      /\ Continue
    /\ UNCHANGED changed
    /\ Frame

\* lines 203-204
Exit ==
    /\ pc = "running"
    /\ pos > Len(params.node_ids)
    /\ End(exit_json(changed, <<"Success">>, server_clients_return))
    /\ UNCHANGED <<provider, next_id, calls, pos, changed,
                   server_clients_return>>
    /\ Frame

\* The module is invoked again with the same input: handle_backup_client's
\* locals start afresh (lines 173-176), the provider is what the last run left.
Rerun ==
    /\ pc = "exited"
    /\ run < MaxRuns
    /\ run' = run + 1
    /\ provider_at_start' = provider
    /\ calls' = <<>>
    /\ pc' = "running"
    /\ pos' = 1
    /\ changed' = FALSE
    /\ server_clients_return' = <<>>
    /\ report' = <<>>
    /\ UNCHANGED <<params, details_attrs, provider, next_id>>

Next ==
    \/ LoopReadFails
    \/ LoopAbsentContinue
    \/ LoopAbsentRemove
    \/ LoopPresentAdd
    \/ LoopPresentModify
    \/ Exit
    \/ Rerun

Spec == Init /\ [][Next]_vars

\* ------------------------------------------------- reading the call record
CallsAt(p) == SelectSeq(calls, LAMBDA c : c.pos = p)

OpsAt(p) == [i \in 1..Len(CallsAt(p)) |-> CallsAt(p)[i].op]

CallsOf(p, op) == SelectSeq(CallsAt(p), LAMBDA c : c.op = op)

AnyCall(op) == \E i \in 1..Len(calls) : calls[i].op = op

\* The positions of node_ids whose first read returned backup details.
Visited == {p \in 1..Len(params.node_ids) :
               Len(CallsAt(p)) > 0 /\ CallsAt(p)[1].ok}

ClientsRead(c) == c.ret[1].clients

MatchIndexes(clients) ==
    {i \in 1..Len(clients) : clients[i].type = params.client_type}

\* The target at position p had a client of the requested type when read.
MatchesAt(p) == MatchIndexes(ClientsRead(CallsAt(p)[1])) # {}

MatchedAt(p) ==
    LET clients == ClientsRead(CallsAt(p)[1])
    IN  clients[CHOOSE i \in MatchIndexes(clients) :
                   \A j \in MatchIndexes(clients) : i <= j]

StateOf(c) ==
    [id |-> c.id, client_type |-> c.type, storage_policy |-> c.storage_policy,
     schedule_policy |-> c.schedule_policy, download_url |-> c.download_url]

PoliciesSupplied ==
    params.storage_policy # "None" /\ params.schedule_policy # "None"

IsConfigError(msg) == Len(msg) > 0 /\ msg[1] = "Need key"

\* p is the last position the loop has finished that names this server.
LastDoneFor(p) ==
    /\ p < pos
    /\ \A q \in (p + 1)..(pos - 1) : params.node_ids[q] # params.node_ids[p]

\* C1: with state=present and storage_policy or schedule_policy unset a run
\* over a non-empty target list ends in a configuration error, and when that
\* error is raised no provider call (read, add, remove, modify) has been made.
C1_FailFastBeforeAnyCall ==
    (/\ params.state = "present"
     /\ ~PoliciesSupplied
     /\ Len(params.node_ids) > 0) =>
        /\ pc # "exited"
        /\ (pc = "failed" /\ IsConfigError(report.msg)) => calls = <<>>

\* C2: a target processed with state=present that has a client of the
\* requested type gets exactly one update_target call carrying its existing
\* service plan, no add and no remove call, changed becomes true, and its
\* result entry is the matched client's state as read before the call.
C2_PresentFoundModifies ==
    params.state = "present" =>
        \A p \in Visited :
            MatchesAt(p) =>
                /\ Len(CallsOf(p, "update")) = 1
                /\ CallsOf(p, "update")[1].args =
                       <<CallsAt(p)[1].ret[1].service_plan>>
                /\ CallsOf(p, "add") = <<>>
                /\ CallsOf(p, "remove") = <<>>
                /\ changed = TRUE
                /\ LastDoneFor(p) =>
                       /\ params.node_ids[p] \in DOMAIN server_clients_return
                       /\ server_clients_return[params.node_ids[p]] =
                              StateOf(MatchedAt(p))

\* C3: a target processed with state=present that has no client of the
\* requested type, the policies being supplied, gets exactly one add call
\* with the supplied spec; changed becomes true; the add, once it succeeded,
\* is followed by exactly one re-read; and the result entry for the target is
\* the state of the client the add created, of the requested type, as that
\* re-read returned it.
C3_PresentMissingAdds ==
    (params.state = "present" /\ PoliciesSupplied) =>
        \A p \in Visited :
            ~MatchesAt(p) =>
                /\ changed = TRUE
                /\ Len(CallsOf(p, "add")) = 1
                /\ CallsOf(p, "add")[1].args =
                       <<params.client_type, params.storage_policy,
                         params.schedule_policy, params.notify_trigger,
                         params.notify_email>>
                /\ CallsOf(p, "remove") = <<>>
                /\ CallsOf(p, "update") = <<>>
                /\ IF CallsOf(p, "add")[1].ok
                   THEN OpsAt(p) = <<"get", "add", "get">>
                   ELSE OpsAt(p) = <<"get", "add">>
                /\ p < pos =>
                       LET created == CallsOf(p, "add")[1].ret[1]
                           reread == ClientsRead(CallsAt(p)[3])
                       IN  /\ created.type = params.client_type
                           /\ \E i \in 1..Len(reread) : reread[i] = created
                           /\ \E i \in 1..Len(provider[params.node_ids[p]].clients) :
                                 provider[params.node_ids[p]].clients[i] = created
                           /\ LastDoneFor(p) =>
                                 /\ params.node_ids[p] \in
                                        DOMAIN server_clients_return
                                 /\ server_clients_return[params.node_ids[p]] =
                                        StateOf(created)

C3_Witness ==
    /\ params.state = "present"
    /\ PoliciesSupplied
    /\ pc = "exited"
    /\ \E p \in Visited :
          /\ ~MatchesAt(p)
          /\ Len(ClientsRead(CallsAt(p)[1])) > 0
          /\ OpsAt(p) = <<"get", "add", "get">>
          /\ report.changed = TRUE
          /\ report.backups[params.node_ids[p]].client_type = params.client_type

\* C4: a run with state=absent that completes issues a remove call for a
\* target exactly when the target had a client of the requested type when it
\* was read (one remove, of that client, per such target; none otherwise),
\* issues no add or modify call, reports an empty result map, and reports
\* changed true exactly when some target had a matching client.
C4_AbsentRemovesExactlyMatches ==
    (params.state = "absent" /\ pc = "exited") =>
        /\ Visited = 1..Len(params.node_ids)
        /\ \A p \in Visited :
              IF MatchesAt(p)
              THEN /\ OpsAt(p) = <<"get", "remove">>
                   /\ CallsAt(p)[2].args = <<MatchedAt(p).id>>
                   /\ CallsAt(p)[2].server = params.node_ids[p]
              ELSE OpsAt(p) = <<"get">>
        /\ ~AnyCall("add")
        /\ ~AnyCall("update")
        /\ DOMAIN report.backups = {}
        /\ report.changed = (\E p \in Visited : MatchesAt(p))

C4_Witness ==
    /\ params.state = "absent"
    /\ pc = "exited"
    /\ Len(params.node_ids) > 1
    /\ \E p \in Visited : MatchesAt(p)
    /\ \E p \in Visited : ~MatchesAt(p)
    /\ report.changed = TRUE

\* What the provider holds after the successful write calls of cs, in order.
ApplyCall(prov, c) ==
    IF ~c.ok THEN prov
    ELSE IF c.op = "add"
    THEN [prov EXCEPT ![c.server].clients = Append(@, c.ret[1])]
    ELSE IF c.op = "remove"
    THEN [prov EXCEPT ![c.server].clients =
             SelectSeq(@, LAMBDA x : x.id # c.args[1])]
    ELSE IF c.op = "update"
    THEN [prov EXCEPT ![c.server].service_plan = c.args[1]]
    ELSE prov

RECURSIVE Replay(_, _)
Replay(prov, cs) ==
    IF cs = <<>> THEN prov ELSE Replay(ApplyCall(prov, Head(cs)), Tail(cs))

Halted == pc \in {"failed", "crashed"}

TookBranch(p, b) ==
    /\ p \in Visited
    /\ b = IF params.state = "absent"
           THEN (IF MatchesAt(p) THEN "remove" ELSE "continue")
           ELSE (IF MatchesAt(p) THEN "modify" ELSE "add")

\* C5: in a run that follows a successful run with the same input, no add and
\* no remove call is made: every target read takes the found branch under
\* state=present and the no-op branch under state=absent, and each target's
\* backup clients are those the previous run left.
C5_SecondRunConverged ==
    run > 1 =>
        /\ ~AnyCall("add")
        /\ ~AnyCall("remove")
        /\ \A p \in Visited :
              TookBranch(p, IF params.state = "present" THEN "modify"
                            ELSE "continue")
        /\ \A s \in Servers :
              provider[s].clients = provider_at_start[s].clients

C5_Witness ==
    /\ run = 2
    /\ pc = "exited"
    /\ params.state = "present"
    /\ Len(params.node_ids) > 1
    /\ next_id > Len(ServerSeq) * Len(ClientTypeSeq) + 1
    /\ \A p \in 1..Len(params.node_ids) : OpsAt(p) = <<"get", "update">>

\* C6: a failure of an add, remove or update_target call aborts the run with
\* an error reported through fail_json whose message names the target being
\* processed and carries the provider's message.
C6_WriteFailureReported ==
    \A i \in 1..Len(calls) :
        (calls[i].op \in {"add", "remove", "update"} /\ ~calls[i].ok) =>
            /\ pc = "failed"
            /\ "failed" \in DOMAIN report
            /\ \E k \in 1..Len(report.msg) : report.msg[k] = calls[i].server
            /\ Len(report.msg) >= Len(ApiErrorMsg)
            /\ SubSeq(report.msg, Len(report.msg) - Len(ApiErrorMsg) + 1,
                      Len(report.msg)) = ApiErrorMsg

\* C7: the first fatal error halts the run.  A failed provider call is the
\* last call of the run, nothing is called for the failing target or a later
\* one afterwards, no step follows, what is reported carries neither changed
\* nor backups, and the provider holds exactly what the successful writes
\* before the error made of it: nothing is rolled back.
C7_FirstErrorHalts ==
    /\ \A i \in 1..Len(calls) :
          ~calls[i].ok => (i = Len(calls) /\ Halted /\ calls[i].pos = pos)
    /\ \A i \in 1..Len(calls) : calls[i].pos <= pos
    /\ Halted =>
          /\ ~ENABLED Next
          /\ pos <= Len(params.node_ids)
          /\ DOMAIN report \cap {"changed", "backups"} = {}
          /\ "msg" \in DOMAIN report
          /\ provider = Replay(provider_at_start, calls)
    /\ (\E i \in 1..Len(calls) : ~calls[i].ok) \/ ~Halted
          \/ IsConfigError(report.msg) \/ "exception" \in DOMAIN report

C7_Witness ==
    /\ pc = "failed"
    /\ pos = 2
    /\ ~calls[Len(calls)].ok
    /\ calls[Len(calls)].op = "get"
    /\ DOMAIN server_clients_return # {}
    /\ provider # provider_at_start
    /\ AnyCall("add")

\* C8: under state=present a client of the requested type found on a server
\* is left as it was: the provider still holds it with the same id, client
\* type, storage policy and schedule policy, and no add or remove call is
\* made for that target, also when the storage and schedule policy asked for
\* differ from the client's.
C8_FoundClientUntouched ==
    params.state = "present" =>
        \A p \in Visited :
            MatchesAt(p) =>
                /\ \E i \in 1..Len(provider[params.node_ids[p]].clients) :
                      provider[params.node_ids[p]].clients[i] = MatchedAt(p)
                /\ Cardinality(MatchIndexes(
                       provider[params.node_ids[p]].clients)) = 1
                /\ CallsOf(p, "add") = <<>>
                /\ CallsOf(p, "remove") = <<>>

C8_Witness ==
    /\ params.state = "present"
    /\ PoliciesSupplied
    /\ pc = "exited"
    /\ \E p \in Visited :
          /\ MatchesAt(p)
          /\ MatchedAt(p).storage_policy # params.storage_policy
          /\ MatchedAt(p).schedule_policy # params.schedule_policy
          /\ Len(CallsOf(p, "update")) = 1
          /\ CallsOf(p, "update")[1].ok

\* C9: targets are processed in input order, one after the other, without
\* deduplication: the calls for position i come before those for i+1, every
\* occurrence of an id is read again and sees what the earlier occurrences
\* left (state=present, no client at first, list [A, A]: add at the first
\* occurrence, modify at the second), and the result entry of a repeated id
\* is the one its last occurrence wrote.
C9_SequentialNoDedup ==
    /\ \A i \in 1..Len(calls) : \A j \in i..Len(calls) :
          calls[i].pos <= calls[j].pos
    /\ \A p \in 1..Len(params.node_ids) :
          /\ p < pos => p \in Visited
          /\ p > pos => CallsAt(p) = <<>>
          /\ p \in Visited =>
                /\ CallsAt(p)[1].op = "get"
                /\ CallsAt(p)[1].server = params.node_ids[p]
                /\ CallsAt(p)[1].ret[1] =
                      BackupDetails(
                          Replay(provider_at_start,
                                 SelectSeq(calls, LAMBDA c : c.pos < p))
                              [params.node_ids[p]])
    /\ (/\ params.state = "present"
        /\ Len(params.node_ids) = 2
        /\ params.node_ids[1] = params.node_ids[2]
        /\ MatchIndexes(provider_at_start[params.node_ids[1]].clients) = {}
        /\ 2 \in Visited)
       => /\ OpsAt(1) = <<"get", "add", "get">>
          /\ OpsAt(2) = <<"get", "update">>
    /\ pc = "exited" =>
          \A p \in Visited :
              (LastDoneFor(p) /\ params.state = "present") =>
                  report.backups[params.node_ids[p]] =
                      StateOf(IF MatchesAt(p) THEN MatchedAt(p)
                              ELSE CallsOf(p, "add")[1].ret[1])

\* C10: at every point of a run changed is true exactly when an add or a
\* remove call has been attempted so far in the run (update_target calls and
\* reads never set it), and the changed of a success report says whether some
\* target took the add branch or the remove branch.
C10_ChangedIffAddOrRemoveCalled ==
    /\ changed = (AnyCall("add") \/ AnyCall("remove"))
    /\ pc = "exited" =>
          report.changed = (\E p \in Visited :
                               TookBranch(p, "add") \/ TookBranch(p, "remove"))
====
